---- MODULE Spec2Model ----
(***************************************************************************)
(* The offset log of flumedb-rs (src/src/offset_log.rs): the frame codec,  *)
(* the file-backed OffsetLog handle (append, append_batch, get, latest)    *)
(* and the buffered OffsetLogIter, over a file that is a sequence of       *)
(* bytes.                                                                  *)
(***************************************************************************)
EXTENDS Integers, Sequences, FiniteSets, TLC

\* ------------------------------------------------------------------ bounds
\* The handle stops appending once `length` would pass what MaxFrames frames
\* of the longest payload take.
MaxFrames == 2
\* I/O calls that fail or write short, per behaviour.
MaxFaults == 1
\* Payloads per append_batch call.
MaxBatch == 2
\* get is not called once last_valid_offset has reached what MaxGets
\* successful gets add to it.
MaxGets == 2
\* Longest payload appended.
MaxPayloadLen == 1
\* Frames encoded into one buffer.
MaxCodecFrames == 2
\* Different sequence numbers handed to the view.
MaxSeqs == 3
\* Largest buffered-reader capacity tried (std's is 8 KiB, far above a
\* frame header; the model scales it down to the size of a few frames).
MaxBufCap == 26

\* ------------------------------------------------------- program constants
\* size_of::<u32>(): the width of a length field.
U32Size == 4

\* The payloads handed to append: one of each length, bytes 7, 8, ..
Payloads == {[i \in 1 .. k |-> 6 + i] : k \in 0 .. MaxPayloadLen}
\* What a byte of a freshly allocated, never written buffer may hold.
UninitBytes == {0, 1}
\* size_of::<ByteType>() for ByteType = u32 and u64.
Widths == {4, 8}

Min(a, b) == IF a < b THEN a ELSE b

\* Bytes i+1 .. of s (s without its first i bytes); BytesMut::advance.
Drop(s, i) == SubSeq(s, Min(i, Len(s)) + 1, Len(s))
\* The first n bytes of s (all of s when it is shorter).
Take(s, n) == SubSeq(s, 1, Min(n, Len(s)))

\* --------------------------------------------------------------- the state
VARIABLES
    W,                  \* size_of::<ByteType>(), fixed per log
    file,               \* the bytes of the log file
    length,             \* OffsetLog.offset_codec.length
    last_valid_offset,  \* OffsetLog.offset_codec.last_valid_offset
    budget,             \* faulty I/O calls (errors, short writes) still to come
    erred,              \* calls that returned an I/O error so far
    ret,                \* the last call on the handle and what it returned
    appended,           \* {[off, data]}: what Ok appends returned for what
    last_get,           \* offset of the most recent successful get, or -1
    it,                 \* the OffsetLogIter, if one was constructed
    opened,             \* what OffsetLog::new found, and the appends since
    peer,               \* a second OffsetLog handle on the same file, if any
    coder,              \* a BytesMut that encode and decode are applied to
    view                \* the FlumeViewSql: its message table and `latest`

vars == <<W, file, length, last_valid_offset, budget, erred, ret, appended,
          last_get, it, opened, peer, coder, view>>

\* ------------------------------------------------------------ frame codec
\* n as w little-endian bytes.
RECURSIVE put_uint_le(_, _)
put_uint_le(n, w) ==
    IF w = 0 THEN <<>> ELSE <<n % 256>> \o put_uint_le(n \div 256, w - 1)

\* n as w big-endian bytes (put_u32_be, put_uint_be).
RECURSIVE put_uint_be(_, _)
put_uint_be(n, w) ==
    IF w = 0 THEN <<>> ELSE put_uint_be(n \div 256, w - 1) \o <<n % 256>>

\* read_u32::<BigEndian> of the first 4 bytes of b.
read_u32_be(b) == ((b[1] * 256 + b[2]) * 256 + b[3]) * 256 + b[4]

\* size_of_framing_bytes with a trailing offset as wide as a length field.
size_of_framing_bytes_u32 == U32Size * 2 + U32Size

size_of_framing_bytes == U32Size * 2 + W

\* is_valid_frame reading the second length where the payload starts.
is_valid_frame_at_payload(buf, data_size) ==
    read_u32_be(Drop(buf, data_size)) = data_size

\* is_valid_frame that takes every frame for valid.
is_valid_frame_any(buf, data_size) == TRUE

\* is_valid_frame that also rejects a trailing offset ending in byte 1.
is_valid_frame_reading_offset(buf, data_size) ==
    /\ read_u32_be(Drop(buf, data_size + U32Size)) = data_size
    /\ buf[2 * U32Size + data_size + W] # 1

is_valid_frame(buf, data_size) ==
    LET second_data_size_index == data_size + U32Size
        second_data_size == read_u32_be(Drop(buf, second_data_size_index))
    IN  second_data_size = data_size

\* encode::<T>(offset, item, dest): the new dest and the returned offset.
encode(offset, item, dest) ==
    LET chunk_size == size_of_framing_bytes + Len(item)
        new_offset == offset + chunk_size
    IN  [dest |-> dest \o put_uint_be(Len(item), U32Size) \o item
                       \o put_uint_be(Len(item), U32Size)
                       \o put_uint_be(new_offset, W),
         new_offset |-> new_offset]

\* decode checking the second length as soon as the buffer holds it,
\* before it asks whether the whole frame is there.
decode_eager(buf) ==
    IF Len(buf) < U32Size
    THEN [kind |-> "none", data |-> <<>>, buf |-> buf]
    ELSE LET data_size == read_u32_be(buf) IN
         IF Len(buf) < data_size + 2 * U32Size
         THEN [kind |-> "none", data |-> <<>>, buf |-> buf]
         ELSE IF ~is_valid_frame(buf, data_size)
         THEN [kind |-> "corrupt", data |-> <<>>, buf |-> buf]
         ELSE IF Len(buf) < data_size + size_of_framing_bytes
         THEN [kind |-> "none", data |-> <<>>, buf |-> buf]
         ELSE [kind |-> "some",
               data |-> SubSeq(buf, U32Size + 1, U32Size + data_size),
               buf  |-> Drop(buf, data_size + size_of_framing_bytes)]

\* decode::<T>(buf): Ok(None), Err(CorruptLogFile) or Ok(Some(data)) with
\* the buffer advanced past the frame.
decode(buf) ==
    IF Len(buf) < U32Size
    THEN [kind |-> "none", data |-> <<>>, buf |-> buf]
    ELSE LET data_size == read_u32_be(buf) IN
         IF Len(buf) < data_size + size_of_framing_bytes
         THEN [kind |-> "none", data |-> <<>>, buf |-> buf]
         ELSE IF ~is_valid_frame(buf, data_size)
         THEN [kind |-> "corrupt", data |-> <<>>, buf |-> buf]
         ELSE [kind |-> "some",
               data |-> SubSeq(buf, U32Size + 1, U32Size + data_size),
               buf  |-> Drop(buf, data_size + size_of_framing_bytes)]

\* <OffsetCodec as Encoder>::encode: self.length = encode(self.length, ..).
OffsetCodec_encode(len, item, dest) ==
    LET e == encode(len, item, dest)
    IN  [length |-> e.new_offset, dest |-> e.dest]

\* <OffsetCodec as Decoder>::decode: the item gets the old last_valid_offset
\* as id, and last_valid_offset grows by the frame's size.
OffsetCodec_decode(lvo, buf) ==
    LET d == decode(buf) IN
    IF d.kind = "some"
    THEN [kind |-> "some", data |-> d.data, id |-> lvo,
          lvo |-> lvo + size_of_framing_bytes + Len(d.data)]
    ELSE [kind |-> d.kind, data |-> <<>>, id |-> 0, lvo |-> lvo]

\* ------------------------------------------------------------- file I/O
\* What File::write may report for `data`: an error (-1) or the number of
\* bytes it wrote, which may be short of Len(data).
WriteOutcomes(data) ==
    IF budget > 0 THEN {-1} \cup (0 .. Len(data)) ELSE {Len(data)}

\* Whether File::seek succeeds.
SeekOutcomes == IF budget > 0 THEN {TRUE, FALSE} ELSE {TRUE}

\* The bytes of the file from position pos to end-of-file.
FileFrom(pos) == Drop(file, pos)

\* seek(SeekFrom::Start(off)): the position a read or write then starts at.
SeekFrom_Start(off) == off

\* seek(SeekFrom::End(off)) where the file is written from its start again.
SeekFrom_End_rewind(off) == SeekFrom_Start(off)

\* seek(SeekFrom::End(off))
SeekFrom_End(off) == Len(file) + off

\* The file f after `data` is written at position pos: the bytes before pos
\* stay (a gap past end-of-file reads as zeros), data replaces what was at
\* pos .. pos + |data|, and the bytes after that stay.
write_at(f, pos, data) ==
    [i \in 1 .. pos |-> IF i <= Len(f) THEN f[i] ELSE 0]
        \o data \o Drop(f, pos + Len(data))

Result(op, kind, arg, val) ==
    [op |-> op, kind |-> kind, arg |-> arg, val |-> val,
     pre_length |-> length, pre_lvo |-> last_valid_offset,
     first |-> ~opened.used]

\* ------------------------------------------------------------ OffsetLog
MaxLength == MaxFrames * (size_of_framing_bytes + MaxPayloadLen)

\* append returning the position seek(SeekFrom::End(0)) reported.
append_offset_of_seek(new_length, len) == SeekFrom_End(0)

\* The offset append returns: self.offset_codec.length - len.
append_offset(new_length, len) == new_length - len

\* <OffsetLog as FlumeLog>::append(buff)
append(buff) ==
    /\ length + size_of_framing_bytes + Len(buff) <= MaxLength
    /\ \E sk \in SeekOutcomes :
        IF ~sk
        THEN /\ ret' = Result("append", "io", buff, 0)
             /\ budget' = budget - 1
             /\ erred' = erred + 1
             /\ UNCHANGED <<file, length, appended>>
        ELSE LET e == OffsetCodec_encode(length, buff, <<>>) IN
             \E n \in WriteOutcomes(e.dest) :
                /\ length' = e.length
                /\ IF n = -1
                   THEN /\ ret' = Result("append", "io", buff, 0)
                        /\ erred' = erred + 1
                        /\ UNCHANGED <<file, appended>>
                   ELSE /\ file' = write_at(file, SeekFrom_End(0), Take(e.dest, n))
                        /\ ret' = Result("append", "ok", buff,
                                         append_offset(e.length, n))
                        /\ appended' = appended \cup
                              {[off |-> append_offset(e.length, n), data |-> buff]}
                        /\ UNCHANGED erred
                /\ budget' = IF n = Len(e.dest) THEN budget ELSE budget - 1
    /\ opened' = [opened EXCEPT !.used = TRUE]
    /\ UNCHANGED <<W, last_valid_offset, last_get, it, peer, coder, view>>

\* The fold of append_batch over the first k payloads: the offsets pushed,
\* the bytes encoded and the codec's length.
RECURSIVE batch_fold(_, _)
batch_fold(buffs, k) ==
    IF k = 0
    THEN [offsets |-> <<>>, acc |-> <<>>, length |-> length]
    ELSE LET prev == batch_fold(buffs, k - 1)
             e == OffsetCodec_encode(prev.length, buffs[k], prev.acc)
         IN  [offsets |-> Append(prev.offsets, prev.length),
              acc |-> e.dest, length |-> e.length]

\* OffsetLog::append_batch(buffs). The codec's length is advanced while the
\* frames are encoded, before the seek and the write; the byte count the
\* write reports is dropped.
append_batch(buffs) ==
    LET f == batch_fold(buffs, Len(buffs)) IN
    /\ f.length <= MaxLength
    /\ length' = f.length
    /\ \E sk \in SeekOutcomes :
        IF ~sk
        THEN /\ ret' = Result("append_batch", "io", buffs, <<>>)
             /\ budget' = budget - 1
             /\ erred' = erred + 1
             /\ UNCHANGED <<file, appended>>
        ELSE \E n \in WriteOutcomes(f.acc) :
                /\ IF n = -1
                   THEN /\ ret' = Result("append_batch", "io", buffs, <<>>)
                        /\ erred' = erred + 1
                        /\ UNCHANGED <<file, appended>>
                   ELSE /\ file' = write_at(file, SeekFrom_End(0), Take(f.acc, n))
                        /\ ret' = Result("append_batch", "ok", buffs, f.offsets)
                        /\ appended' = appended \cup
                              {[off |-> f.offsets[i], data |-> buffs[i]] :
                                  i \in 1 .. Len(buffs)}
                        /\ UNCHANGED erred
                /\ budget' = IF n = Len(f.acc) THEN budget ELSE budget - 1
    /\ opened' = [opened EXCEPT !.used = TRUE]
    /\ UNCHANGED <<W, last_valid_offset, last_get, it, peer, coder, view>>

\* The buffer get hands to decode: Vec::with_capacity(data_size) with
\* set_len(data_size), of which one read() fills what the file holds from
\* seq_num on; the bytes after that were never written and hold whatever
\* the allocation held, here the bytes of u repeated.
get_buf(seq_num, data_size, u) ==
    LET have == Take(FileFrom(seq_num), data_size) IN
    [i \in 1 .. data_size |->
        IF i <= Len(have) THEN have[i] ELSE u[((i - 1) % Len(u)) + 1]]

\* What the never written tail of get's buffer may hold: nothing to choose
\* when the file fills the whole buffer.
UninitTails(seq_num, data_size) ==
    IF Len(FileFrom(seq_num)) >= data_size
    THEN {[i \in 1 .. 1 |-> 0]}
    ELSE [1 .. U32Size -> UninitBytes]

\* The 4 bytes of vec![0; 4] after one read() at seq_num.
get_frame_bytes(seq_num) == Take(FileFrom(seq_num) \o <<0, 0, 0, 0>>, U32Size)

\* <OffsetLog as FlumeLog>::get(seq_num), called where the 4 header bytes
\* it reads claim no more than the longest payload.
get(seq_num) ==
    /\ last_valid_offset < MaxGets * size_of_framing_bytes
    /\ read_u32_be(get_frame_bytes(seq_num)) <= MaxPayloadLen
    /\ \E io \in SeekOutcomes :
        IF ~io
        THEN /\ ret' = Result("get", "io", seq_num, <<>>)
             /\ budget' = budget - 1
             /\ erred' = erred + 1
             /\ UNCHANGED <<last_valid_offset, last_get>>
        ELSE LET data_size == size_of_framing_bytes
                                + read_u32_be(get_frame_bytes(seq_num))
             IN  \E u \in UninitTails(seq_num, data_size) :
                 LET r == OffsetCodec_decode(last_valid_offset,
                                             get_buf(seq_num, data_size, u))
                 IN  /\ last_valid_offset' = r.lvo
                     /\ ret' = Result("get",
                                  CASE r.kind = "some" -> "ok"
                                    [] r.kind = "corrupt" -> "corrupt"
                                    [] OTHER -> "toosmall",
                                  seq_num, r.data)
                     /\ last_get' = IF r.kind = "some" THEN seq_num ELSE last_get
                     /\ UNCHANGED <<budget, erred>>
    /\ UNCHANGED <<W, file, length, appended, it, opened, peer, coder, view>>

\* <OffsetLog as FlumeLog>::latest()
latest ==
    /\ ret' = Result("latest", "ok", 0, last_valid_offset)
    /\ UNCHANGED <<W, file, length, last_valid_offset, budget, erred,
                   appended, last_get, it, opened, peer, coder, view>>

\* Sequences of at most n payloads.
Batches(n) == UNION {[1 .. k -> Payloads] : k \in 0 .. n}

\* The offsets get is called with: those append and append_batch handed
\* out, the start of the file and its end.
GetOffsets == {r.off : r \in appended} \cup {0, Len(file)}

NoIter ==
    [state |-> "absent", pos |-> 0, buf |-> <<>>, cap |-> 0, lvo |-> 0,
     start |-> 0, items |-> <<>>, last |-> "new", split |-> FALSE]

\* What OffsetLog::new leaves behind: the file size it found, whether
\* append or append_batch was called on the handle since, whether the handle
\* was opened on a log written through an earlier handle, and the offsets
\* that earlier handle had returned.
Opened ==
    [size |-> Len(file), used |-> FALSE, reopened |-> FALSE, before |-> {}]

\* No second handle is open.
NoPeer ==
    [open |-> FALSE, length |-> 0, last_valid_offset |-> 0,
     ret |-> [kind |-> "none", val |-> 0, at |-> 0, arg |-> <<>>,
              pre_length |-> 0]]

\* No buffer is being encoded or decoded.
NoCoder ==
    [on |-> FALSE, initial |-> <<>>, dest |-> <<>>, offset |-> 0, given |-> 0,
     items |-> <<>>, out |-> <<>>, last |-> "new", pre |-> <<>>]

\* No view is open.
NoView ==
    [on |-> FALSE, rows |-> {}, latest |-> 0, indexed |-> {},
     ret |-> [op |-> "none", kind |-> "ok", arg |-> 0, val |-> 0, pre |-> {}]]

\* OffsetLog::new on a path that holds no file yet: the file is created
\* empty and the codec starts with length 0 and last_valid_offset 0.
Init ==
    /\ W \in Widths
    /\ file = <<>>
    /\ length = Len(file)
    /\ last_valid_offset = 0
    /\ budget = MaxFaults
    /\ erred = 0
    /\ ret = [op |-> "new", kind |-> "ok", arg |-> 0, val |-> 0,
              pre_length |-> 0, pre_lvo |-> 0, first |-> TRUE]
    /\ appended = {}
    /\ last_get = -1
    /\ it = NoIter
    /\ opened = Opened
    /\ peer = NoPeer
    /\ coder = NoCoder
    /\ view = NoView

Next ==
    \/ \E buff \in Payloads : append(buff)
    \/ \E buffs \in Batches(MaxBatch) : append_batch(buffs)
    \/ \E seq_num \in GetOffsets : get(seq_num)
    \/ latest

Spec == Init /\ [][Next]_vars

\* --------------------------------------------------------- OffsetLogIter
\* The reader is BufReader<R>: pos is the position of R in the file, buf
\* the bytes read from R and not yet consumed, cap the buffer's capacity.

\* BufReader::fill_buf: reads up to cap bytes from R when the buffer is
\* empty, and returns the buffer.
fill_buf(rd) ==
    IF rd.buf # <<>>
    THEN rd
    ELSE LET got == Take(FileFrom(rd.pos), rd.cap)
         IN  [rd EXCEPT !.buf = got, !.pos = rd.pos + Len(got)]

\* BufReader::consume(amt)
consume(rd, amt) == [rd EXCEPT !.buf = Drop(rd.buf, amt)]

\* frame_consume forgetting what was consumed while the frame was gathered.
frame_consume_whole(data_len, total_consumed) ==
    data_len + size_of_framing_bytes

\* What next() consumes once the frame is decoded: the frame's bytes less
\* those consumed while the frame was gathered.
frame_consume(data_len, total_consumed) ==
    data_len + size_of_framing_bytes - total_consumed

\* The loop `while bytes.len() < framed_size`: consume the buffer, fill it
\* again, extend bytes. When the reader is at end-of-file the refill is
\* empty, bytes stays as it is, and the loop never ends (spin).
RECURSIVE fill_frame(_, _, _, _, _)
fill_frame(rd, bytes, buff_len, total_consumed, framed_size) ==
    IF Len(bytes) >= framed_size
    THEN [spin |-> FALSE, rd |-> rd, bytes |-> bytes,
          total_consumed |-> total_consumed]
    ELSE LET r == fill_buf(consume(rd, buff_len)) IN
         IF r.buf = <<>>
         THEN [spin |-> TRUE, rd |-> r, bytes |-> bytes,
               total_consumed |-> total_consumed + buff_len]
         ELSE fill_frame(r, bytes \o r.buf, Len(r.buf),
                         total_consumed + buff_len, framed_size)

\* <OffsetLogIter as Iterator>::next on reader rd and codec offset lvo:
\* None, Some(item), a panic (the slice bytes[0..4] of fewer than 4 bytes)
\* or a loop that does not end.
next_of(rd, lvo) ==
    LET r1 == fill_buf(rd)
        short == Len(r1.buf) < U32Size
        r2 == IF short THEN fill_buf(consume(r1, Len(r1.buf))) ELSE r1
        bytes == IF short THEN r1.buf \o r2.buf ELSE r1.buf
        total_consumed == IF short THEN Len(r1.buf) ELSE 0
        none == [kind |-> "none", rd |-> r1, lvo |-> lvo, id |-> 0,
                 data |-> <<>>, split |-> FALSE]
    IN  IF r1.buf = <<>> THEN none
        ELSE IF Len(bytes) < U32Size
        THEN [none EXCEPT !.kind = "panic", !.rd = r2, !.split = short]
        ELSE LET framed_size == read_u32_be(bytes) + size_of_framing_bytes
                 f == fill_frame(r2, bytes, Len(r2.buf), total_consumed,
                                 framed_size)
                 d == OffsetCodec_decode(lvo, f.bytes)
             IN  IF f.spin
                 THEN [none EXCEPT !.kind = "spin", !.rd = f.rd, !.split = short]
                 ELSE IF d.kind = "some"
                 THEN [kind |-> "item",
                       rd |-> consume(f.rd,
                                 frame_consume(Len(d.data), f.total_consumed)),
                       lvo |-> d.lvo, id |-> d.id, data |-> d.data,
                       split |-> short]
                 ELSE [none EXCEPT !.rd = f.rd, !.split = short]

\* The capacities of the buffered reader.
BufCaps == U32Size .. MaxBufCap

\* OffsetLogIter::new(file) on a freshly opened file.
OffsetLogIter_new ==
    /\ it.state = "absent"
    /\ \E cap \in BufCaps :
         it' = [NoIter EXCEPT !.state = "ready", !.cap = cap]
    /\ UNCHANGED <<W, file, length, last_valid_offset, budget, erred, ret,
                   appended, last_get, opened, peer, coder, view>>

\* OffsetLogIter::with_starting_offset(file, starting_seq): the file is
\* sought to starting_seq; the codec is OffsetCodec::new().
with_starting_offset(starting_seq) ==
    /\ it.state = "absent"
    /\ \E cap \in BufCaps :
         it' = [NoIter EXCEPT !.state = "ready", !.cap = cap,
                              !.pos = starting_seq, !.start = starting_seq]
    /\ UNCHANGED <<W, file, length, last_valid_offset, budget, erred, ret,
                   appended, last_get, opened, peer, coder, view>>

\* <OffsetLogIter as Iterator>::next
OffsetLogIter_next ==
    /\ it.state = "ready"
    /\ LET n == next_of([pos |-> it.pos, buf |-> it.buf, cap |-> it.cap],
                        it.lvo)
       IN  it' = [it EXCEPT
                    !.state = CASE n.kind = "panic" -> "panicked"
                                [] n.kind = "spin" -> "spinning"
                                [] OTHER -> "ready",
                    !.pos = n.rd.pos, !.buf = n.rd.buf, !.lvo = n.lvo,
                    !.items = IF n.kind = "item"
                              THEN Append(@, [id |-> n.id, data |-> n.data])
                              ELSE @,
                    !.last = n.kind,
                    !.split = @ \/ n.split]
    /\ UNCHANGED <<W, file, length, last_valid_offset, budget, erred, ret,
                   appended, last_get, opened, peer, coder, view>>

\* The offsets with_starting_offset is called with: those the log handed
\* out and the start of the file.
StartOffsets == {r.off : r \in appended} \cup {0}

\* A log is written through its handle and then scanned by one iterator;
\* nothing is appended while the iterator is open.
NextIter ==
    \/ it.state = "absent" /\ \E buff \in Payloads : append(buff)
    \/ it.state = "absent" /\ \E buffs \in Batches(MaxBatch) : append_batch(buffs)
    \/ OffsetLogIter_new
    \/ \E starting_seq \in StartOffsets : with_starting_offset(starting_seq)
    \/ OffsetLogIter_next

SpecIter == Init /\ [][NextIter]_vars

\* The same with I/O that never fails: every write writes the whole buffer.
InitReliable ==
    /\ W \in Widths
    /\ file = <<>>
    /\ length = Len(file)
    /\ last_valid_offset = 0
    /\ budget = 0
    /\ erred = 0
    /\ ret = [op |-> "new", kind |-> "ok", arg |-> 0, val |-> 0,
              pre_length |-> 0, pre_lvo |-> 0, first |-> TRUE]
    /\ appended = {}
    /\ last_get = -1
    /\ it = NoIter
    /\ opened = Opened
    /\ peer = NoPeer
    /\ coder = NoCoder
    /\ view = NoView

SpecScan == InitReliable /\ [][NextIter]_vars

\* A frame as another writer left it at position pos: as encode writes it,
\* or with a second length field that is one more than the first.
ExistingFrame(pos, payload, damaged) ==
    LET frame == encode(pos, payload, <<>>).dest
    IN  IF damaged
        THEN [frame EXCEPT ![2 * U32Size + Len(payload)] = Len(payload) + 1]
        ELSE frame

\* The files of at most n such frames.
RECURSIVE ExistingFiles(_)
ExistingFiles(n) ==
    IF n = 0 THEN {<<>>}
    ELSE LET shorter == ExistingFiles(n - 1)
         IN  shorter \cup
             {f \o ExistingFrame(Len(f), payload, damaged) :
                 f \in shorter,
                 payload \in Payloads, damaged \in BOOLEAN}

\* OffsetLog::new on a path that holds a file: `length` is the file's size;
\* the file is not scanned. I/O never fails.
InitOpen ==
    /\ W \in Widths
    /\ file \in ExistingFiles(MaxFrames - 1)
    /\ length = Len(file)
    /\ last_valid_offset = 0
    /\ budget = 0
    /\ erred = 0
    /\ ret = [op |-> "new", kind |-> "ok", arg |-> 0, val |-> 0,
              pre_length |-> Len(file), pre_lvo |-> 0, first |-> TRUE]
    /\ appended = {}
    /\ last_get = -1
    /\ it = NoIter
    /\ opened = Opened
    /\ peer = NoPeer
    /\ coder = NoCoder
    /\ view = NoView

SpecOpen == InitOpen /\ [][Next]_vars

\* ------------------------------------------------------------- reopening
\* OffsetLog::new on the path of the log, after the handle that wrote it is
\* dropped: the file is opened without truncation, `length` is the file's
\* size and last_valid_offset is 0.
OffsetLog_new ==
    /\ ~opened.reopened
    /\ length' = Len(file)
    /\ last_valid_offset' = 0
    /\ ret' = Result("new", "ok", file, Len(file))
    /\ opened' = [size |-> Len(file), used |-> FALSE, reopened |-> TRUE,
                  before |-> appended]
    /\ last_get' = -1
    /\ UNCHANGED <<W, file, budget, erred, appended, it, peer, coder, view>>

\* A log is written and read, reopened once, and written and read again.
NextReopen ==
    \/ \E buff \in Payloads : append(buff)
    \/ \E seq_num \in GetOffsets : get(seq_num)
    \/ OffsetLog_new

SpecReopen == Init /\ [][NextReopen]_vars

\* The same with I/O that never fails.
SpecReopenReliable == InitReliable /\ [][NextReopen]_vars

\* ------------------------------------------------- two handles, one file
\* OffsetLog::new on the path of the open log: a second handle, with its
\* own codec, whose `length` is the size the file has now.
peer_new ==
    /\ ~peer.open
    /\ peer' = [NoPeer EXCEPT !.open = TRUE, !.length = Len(file)]
    /\ UNCHANGED <<W, file, length, last_valid_offset, budget, erred, ret,
                   appended, last_get, it, opened, coder, view>>

\* <OffsetLog as FlumeLog>::append(buff) on the second handle; `at` is
\* where seek(SeekFrom::End(0)) put the write.
peer_append(buff) ==
    /\ peer.open
    /\ peer.length + size_of_framing_bytes + Len(buff) <= MaxLength
    /\ Len(file) + size_of_framing_bytes + Len(buff) <= MaxLength
    /\ \E sk \in SeekOutcomes :
        IF ~sk
        THEN /\ peer' = [peer EXCEPT !.ret =
                    [kind |-> "io", val |-> 0, at |-> 0, arg |-> buff,
                     pre_length |-> peer.length]]
             /\ budget' = budget - 1
             /\ erred' = erred + 1
             /\ UNCHANGED file
        ELSE LET e == OffsetCodec_encode(peer.length, buff, <<>>)
                 at == SeekFrom_End(0)
             IN  \E n \in WriteOutcomes(e.dest) :
                /\ IF n = -1
                   THEN /\ peer' = [peer EXCEPT !.length = e.length, !.ret =
                              [kind |-> "io", val |-> 0, at |-> at,
                               arg |-> buff, pre_length |-> peer.length]]
                        /\ erred' = erred + 1
                        /\ UNCHANGED file
                   ELSE /\ file' = write_at(file, at, Take(e.dest, n))
                        /\ peer' = [peer EXCEPT !.length = e.length, !.ret =
                              [kind |-> "ok", val |-> append_offset(e.length, n),
                               at |-> at, arg |-> buff,
                               pre_length |-> peer.length]]
                        /\ UNCHANGED erred
                /\ budget' = IF n = Len(e.dest) THEN budget ELSE budget - 1
    /\ UNCHANGED <<W, length, last_valid_offset, ret, appended, last_get, it,
                   opened, coder, view>>

\* Two handles on one file, their append calls interleaved in any order,
\* each call running to its end before the next starts. I/O never fails.
NextTwo ==
    \/ \E buff \in Payloads : append(buff)
    \/ peer_new
    \/ \E buff \in Payloads : peer_append(buff)

SpecTwo == InitReliable /\ [][NextTwo]_vars

\* ------------------------------------------------- the codec on a buffer
\* encode and decode applied to a BytesMut, as the codec's tests do.

\* The payloads encoded: those appended to logs and the tests' [1, 2, 3, 4].
CodecPayloads == Payloads \cup {<<1, 2, 3, 4>>}

\* The offsets encoding starts from: 0, one that takes one byte, one whose
\* next offset carries into a third byte, one that takes four bytes.
CodecOffsets == {0, 16, 65530, 1073741824}

\* The buffers decode is given: empty, or two frames, each with equal or
\* different length fields, cut off after any number of bytes.
CodecBuffers ==
    {Take(ExistingFrame(0, p1, d1) \o ExistingFrame(0, p2, d2), n) :
        p1 \in Payloads, p2 \in Payloads, d1 \in BOOLEAN, d2 \in BOOLEAN,
        n \in 0 .. 2 * (size_of_framing_bytes + MaxPayloadLen)}

\* encode::<T>(offset, item, dest) with the offset the previous encode
\* returned (the starting offset for the first).
codec_encode(item) ==
    /\ coder.on /\ coder.out = <<>>
    /\ Len(coder.items) < MaxCodecFrames
    /\ LET e == encode(coder.offset, item, coder.dest)
       IN  coder' = [coder EXCEPT !.dest = e.dest, !.offset = e.new_offset,
                                  !.given = coder.offset,
                                  !.items = Append(@, item),
                                  !.last = "encode", !.pre = coder.dest]
    /\ UNCHANGED <<W, file, length, last_valid_offset, budget, erred, ret,
                   appended, last_get, it, opened, peer, view>>

\* decode::<T>(buf) on the buffer, once per frame encoded and once more.
codec_decode ==
    /\ coder.on
    /\ Len(coder.out) <= Len(coder.items)
    /\ LET d == decode(coder.dest)
       IN  coder' = [coder EXCEPT !.dest = d.buf,
                                  !.out = Append(@, [kind |-> d.kind,
                                                     data |-> d.data]),
                                  !.last = d.kind, !.pre = coder.dest]
    /\ UNCHANGED <<W, file, length, last_valid_offset, budget, erred, ret,
                   appended, last_get, it, opened, peer, view>>

\* A buffer and a starting offset; no log is open.
InitCodec ==
    /\ W \in Widths
    /\ file = <<>>
    /\ length = 0
    /\ last_valid_offset = 0
    /\ budget = 0
    /\ erred = 0
    /\ ret = [op |-> "none", kind |-> "ok", arg |-> 0, val |-> 0,
              pre_length |-> 0, pre_lvo |-> 0, first |-> TRUE]
    /\ appended = {}
    /\ last_get = -1
    /\ it = NoIter
    /\ opened = Opened
    /\ peer = NoPeer
    /\ view = NoView
    /\ \E dest \in CodecBuffers, offset \in CodecOffsets :
          coder = [NoCoder EXCEPT !.on = TRUE, !.initial = dest,
                                  !.dest = dest, !.offset = offset]

NextCodec ==
    \/ \E item \in CodecPayloads : codec_encode(item)
    \/ codec_decode

SpecCodec == InitCodec /\ [][NextCodec]_vars

\* ---------------------------------------------------------- FlumeViewSql
\* A JSON scalar as serde_json sees it: a string, an integer, a number
\* that is not an integer, null, or no value at all.
Str(x) == [kind |-> "string", s |-> x, n |-> 0]
Num(x) == [kind |-> "number", s |-> "", n |-> x]
Float == [kind |-> "float", s |-> "", n |-> 0]
Null == [kind |-> "null", s |-> "", n |-> 0]
Missing == [kind |-> "missing", s |-> "", n |-> 0]

\* The bytes handed to the view, by what a JSON reader finds in them: no
\* JSON at all, or an object and, at each place SsbMessage names, the
\* value found there. The test's message, with key k and content type t:
Message(k, t) ==
    [json |-> TRUE, key |-> Str(k), timestamp |-> Num(1933),
     value |-> [kind |-> "object", author |-> Str("@Q"),
                sequence |-> Num(4797), timestamp |-> Num(7985),
                content |-> [kind |-> "object", type |-> t,
                             root |-> Str("%9E"), branch |-> Missing]]]

ViewKeys == {"%KK", "%xs"}
ContentTypes == {Str("post"), Str("vote"), Missing}

\* Messages, bytes that are no JSON, and messages with one place changed.
ViewItems ==
    LET m == Message("%KK", Str("post")) IN
    {Message(k, t) : k \in ViewKeys, t \in ContentTypes}
    \cup {[m EXCEPT !.json = FALSE],
          [m EXCEPT !.key = Missing],
          [m EXCEPT !.key = Num(1)],
          [m EXCEPT !.timestamp = Float],
          [m EXCEPT !.value.kind = "missing"],
          [m EXCEPT !.value.author = Missing],
          [m EXCEPT !.value.sequence = Num(-1)],
          [m EXCEPT !.value.sequence = Str("1")],
          [m EXCEPT !.value.timestamp = Missing],
          [m EXCEPT !.value.content.kind = "missing"],
          [m EXCEPT !.value.content.kind = "string"],
          [m EXCEPT !.value.content.type = Num(1)]}

\* The sequence numbers handed to the view: offsets of a log, all below
\* 2^63, the test's 1234 among them.
ViewSeqs == {617 * i : i \in 0 .. MaxSeqs - 1}

\* from_slice taking every JSON object for a message.
from_slice_any_object(item) == item.json

\* The values of `latest` the view is constructed with: the tests' 0 and
\* one that is not 0.
ViewLatests == {0, 1234}

\* serde_json::from_slice::<SsbMessage>(item): Ok exactly when the bytes
\* are a JSON object with a string key, an i64 timestamp and a value object
\* with a string author, a u32 sequence, an i64 timestamp and any content.
from_slice(item) ==
    /\ item.json
    /\ item.key.kind = "string"
    /\ item.timestamp.kind = "number"
    /\ item.value.kind = "object"
    /\ item.value.author.kind = "string"
    /\ item.value.sequence.kind = "number" /\ item.value.sequence.n >= 0
    /\ item.value.timestamp.kind = "number"
    /\ item.value.content.kind # "missing"

\* content[name].as_str(): the string at `name` of a content object, None
\* (stored as NULL) when content is no object or holds no string there.
content_as_str(content, name) ==
    LET v == CASE name = "type" -> content.type
               [] name = "root" -> content.root
               [] OTHER -> content.branch
    IN  IF content.kind = "object" /\ v.kind = "string" THEN v ELSE Null

\* `seq as i64`: the value itself for every seq below 2^63.
as_i64(seq) == seq

\* The row the INSERT of append(seq, item) binds.
message_row(seq, item) ==
    [id |-> as_i64(seq),
     key |-> item.key.s,
     seq |-> item.value.sequence.n,
     received_time |-> item.timestamp.n,
     asserted_time |-> item.value.timestamp.n,
     root |-> content_as_str(item.value.content, "root"),
     branch |-> content_as_str(item.value.content, "branch"),
     author |-> item.value.author.s,
     content_type |-> content_as_str(item.value.content, "type"),
     content |-> item.value.content]

\* INSERT INTO message on a table whose key column is not UNIQUE: only a
\* row with the same id makes it fail.
insert_conflict_by_id(rows, row) ==
    \E r \in rows : r.id = row.id

\* INSERT INTO message fails on a row with the same id (PRIMARY KEY) or the
\* same key (UNIQUE).
insert_conflict(rows, row) ==
    \E r \in rows : r.id = row.id \/ r.key = row.key

\* The ids in S in ascending order: the order of a scan of the table.
RECURSIVE Ascending(_)
Ascending(S) ==
    IF S = {} THEN <<>>
    ELSE LET m == CHOOSE x \in S : \A y \in S : x <= y
         IN  <<m>> \o Ascending(S \ {m})

\* SELECT id FROM message WHERE content_type=?1, taking the rows without a
\* content type too.
select_by_type_or_null(rows, content_type) ==
    Ascending({r.id : r \in {x \in rows :
        x.content_type = Str(content_type) \/ x.content_type = Null}})

\* SELECT id FROM message WHERE content_type=?1
select_by_type(rows, content_type) ==
    Ascending({r.id : r \in {x \in rows : x.content_type = Str(content_type)}})

\* SELECT id FROM message WHERE key=?1
select_by_key(rows, key) == {r.id : r \in {x \in rows : x.key = key}}

\* <FlumeViewSql as FlumeView>::append(seq, item): nothing is done with
\* bytes that do not parse; the INSERT of those that do is unwrapped, so a
\* conflict panics, with the table as it was.
FlumeViewSql_append(seq, item) ==
    /\ view.on
    /\ LET parsed == from_slice(item)
           row == message_row(seq, item)
           conflict == parsed /\ insert_conflict(view.rows, row)
           inserted == parsed /\ ~conflict
       IN  view' = [view EXCEPT
                      !.rows = IF inserted THEN @ \cup {row} ELSE @,
                      !.indexed = IF inserted
                                  THEN @ \cup {[seq |-> seq, item |-> item]}
                                  ELSE @,
                      !.ret = [op |-> "append",
                               kind |-> IF conflict THEN "panic" ELSE "ok",
                               arg |-> seq, val |-> item, pre |-> view.rows]]
    /\ UNCHANGED <<W, file, length, last_valid_offset, budget, erred, ret,
                   appended, last_get, it, opened, peer, coder>>

\* FlumeViewSql::get_seq_by_key(key): query_row gives the row's id, or an
\* error when no row has the key.
get_seq_by_key(key) ==
    /\ view.on
    /\ LET ids == select_by_key(view.rows, key)
       IN  view' = [view EXCEPT !.ret =
                      [op |-> "get_seq_by_key",
                       kind |-> IF ids = {} THEN "err" ELSE "ok",
                       arg |-> key,
                       val |-> IF ids = {} THEN 0 ELSE CHOOSE i \in ids : TRUE,
                       pre |-> view.rows]]
    /\ UNCHANGED <<W, file, length, last_valid_offset, budget, erred, ret,
                   appended, last_get, it, opened, peer, coder>>

\* FlumeViewSql::get_seqs_by_type(content_type)
get_seqs_by_type(content_type) ==
    /\ view.on
    /\ view' = [view EXCEPT !.ret =
                  [op |-> "get_seqs_by_type", kind |-> "ok",
                   arg |-> content_type,
                   val |-> select_by_type(view.rows, content_type),
                   pre |-> view.rows]]
    /\ UNCHANGED <<W, file, length, last_valid_offset, budget, erred, ret,
                   appended, last_get, it, opened, peer, coder>>

\* A latest() that follows the index: the highest id among the rows, and
\* the constructor's value while there are none.
FlumeViewSql_latest_of_rows ==
    /\ view.on
    /\ LET ids == {r.id : r \in view.rows}
           top == IF ids = {} THEN view.latest
                  ELSE CHOOSE i \in ids : \A j \in ids : j <= i
       IN  view' = [view EXCEPT !.ret =
                      [op |-> "latest", kind |-> "ok", arg |-> 0,
                       val |-> top, pre |-> view.rows]]
    /\ UNCHANGED <<W, file, length, last_valid_offset, budget, erred, ret,
                   appended, last_get, it, opened, peer, coder>>

\* <FlumeViewSql as FlumeView>::latest()
FlumeViewSql_latest ==
    /\ view.on
    /\ view' = [view EXCEPT !.ret =
                  [op |-> "latest", kind |-> "ok", arg |-> 0,
                   val |-> view.latest, pre |-> view.rows]]
    /\ UNCHANGED <<W, file, length, last_valid_offset, budget, erred, ret,
                   appended, last_get, it, opened, peer, coder>>

\* FlumeViewSql::new(path, latest) on a path that holds no database yet:
\* the tables are created empty. No log is open.
InitView ==
    /\ W = 4
    /\ file = <<>>
    /\ length = 0
    /\ last_valid_offset = 0
    /\ budget = 0
    /\ erred = 0
    /\ ret = [op |-> "none", kind |-> "ok", arg |-> 0, val |-> 0,
              pre_length |-> 0, pre_lvo |-> 0, first |-> TRUE]
    /\ appended = {}
    /\ last_get = -1
    /\ it = NoIter
    /\ opened = Opened
    /\ peer = NoPeer
    /\ coder = NoCoder
    /\ \E latest_seq \in ViewLatests :
          view = [NoView EXCEPT !.on = TRUE, !.latest = latest_seq]

\* The strings the queries are called with.
QueryTypes == {"post", "vote", "about"}
QueryKeys == ViewKeys \cup {"%none"}

NextView ==
    \/ \E seq \in ViewSeqs, item \in ViewItems : FlumeViewSql_append(seq, item)
    \/ \E key \in QueryKeys : get_seq_by_key(key)
    \/ \E content_type \in QueryTypes : get_seqs_by_type(content_type)
    \/ FlumeViewSql_latest

SpecView == InitView /\ [][NextView]_vars

\* ------------------------------------------------------------ properties
\* The file holds, from position pos on, the 8 + W + L bytes that the 4
\* header bytes at pos claim.
CompleteFrameAt(pos) ==
    /\ Len(FileFrom(pos)) >= U32Size
    /\ Len(FileFrom(pos)) >= size_of_framing_bytes + read_u32_be(FileFrom(pos))

\* The two length fields of the complete frame at pos disagree.
LengthsDisagreeAt(pos) ==
    LET L == read_u32_be(FileFrom(pos))
    IN  read_u32_be(Drop(FileFrom(pos), U32Size + L)) # L

\* The position after the complete frame at pos.
FrameEnd(pos) == pos + size_of_framing_bytes + read_u32_be(FileFrom(pos))

\* The W bytes of the trailing offset field of the complete frame at pos.
TrailingOffsetAt(pos) ==
    Take(Drop(FileFrom(pos), 2 * U32Size + read_u32_be(FileFrom(pos))), W)

\* From pos on the file is a concatenation of well-formed frames, each with
\* a trailing offset equal to the position that follows it.
RECURSIVE WellFormedFrom(_)
WellFormedFrom(pos) ==
    \/ pos = Len(file)
    \/ /\ pos < Len(file)
       /\ CompleteFrameAt(pos)
       /\ ~LengthsDisagreeAt(pos)
       /\ TrailingOffsetAt(pos) = put_uint_be(FrameEnd(pos), W)
       /\ WellFormedFrom(FrameEnd(pos))

\* C1: while every call so far returned Ok, get(o) for an offset o that an
\* append or append_batch returned gives exactly the payload appended at o.
C1_GetReturnsAppended ==
    (ret.op = "get" /\ erred = 0) =>
        \A r \in appended :
            r.off = ret.arg => (ret.kind = "ok" /\ ret.val = r.data)

\* C2: append returns the value `length` had before the call, whatever the
\* write reported; append_batch returns one offset per payload, the first
\* `length` before the call, each next one 8 + W + |previous payload| on.
C2_OffsetsAreFrameStarts ==
    /\ (ret.op = "append" /\ ret.kind = "ok") => ret.val = ret.pre_length
    /\ (ret.op = "append_batch" /\ ret.kind = "ok") =>
          /\ Len(ret.val) = Len(ret.arg)
          /\ Len(ret.val) > 0 => ret.val[1] = ret.pre_length
          /\ \A i \in 1 .. Len(ret.val) - 1 :
                ret.val[i + 1] = ret.val[i] + size_of_framing_bytes + Len(ret.arg[i])

\* C3: an append or append_batch that returns an I/O error leaves `length`
\* and `last_valid_offset` as they were before the call.
C3_FailedAppendKeepsState ==
    (ret.op \in {"append", "append_batch"} /\ ret.kind = "io") =>
        (length = ret.pre_length /\ last_valid_offset = ret.pre_lvo)

\* C4: latest() returns 0 before any get has succeeded and afterwards the
\* starting offset of the record the most recent successful get returned
\* (a record the file holds in full).
C4_LatestIsLastGet ==
    (ret.op = "latest" /\ (last_get = -1 \/ CompleteFrameAt(last_get))) =>
        ret.val = (IF last_get = -1 THEN 0 ELSE last_get)

\* The frames of a well-formed file from pos on, each with its starting
\* offset as id.
RECURSIVE FramesFrom(_)
FramesFrom(pos) ==
    IF pos >= Len(file) THEN <<>>
    ELSE LET L == read_u32_be(FileFrom(pos))
         IN  <<[id |-> pos,
                data |-> SubSeq(FileFrom(pos), U32Size + 1, U32Size + L)]>>
               \o FramesFrom(pos + size_of_framing_bytes + L)

IsPrefix(s, t) == Len(s) <= Len(t) /\ s = SubSeq(t, 1, Len(s))

\* The position in the file of the first byte the reader has not consumed.
ReaderAt == it.pos - Len(it.buf)

\* ------------------------------------------- reading another writer's file
\* What the trailing offset of a frame found in such a file may hold: what
\* encode wrote (-1), or W bytes of this value.
Trailers == {-1, 1}

\* A frame as another writer left it at position pos: complete, with equal
\* or different length fields, and with any of the trailing offsets.
ForeignFrame(pos, payload, damaged, trailer) ==
    LET frame == ExistingFrame(pos, payload, damaged)
    IN  IF trailer = -1 THEN frame
        ELSE [i \in 1 .. Len(frame) |->
                 IF i > Len(frame) - W THEN trailer ELSE frame[i]]

\* The files of at most n such frames.
RECURSIVE ForeignFiles(_)
ForeignFiles(n) ==
    IF n = 0 THEN {<<>>}
    ELSE LET shorter == ForeignFiles(n - 1)
         IN  shorter \cup
             {f \o ForeignFrame(Len(f), payload, damaged, trailer) :
                 f \in shorter, payload \in Payloads,
                 damaged \in BOOLEAN, trailer \in Trailers}

\* OffsetLog::new on a path that holds such a file. I/O never fails.
InitRead ==
    /\ W \in Widths
    /\ file \in ForeignFiles(MaxFrames)
    /\ length = Len(file)
    /\ last_valid_offset = 0
    /\ budget = 0
    /\ erred = 0
    /\ ret = [op |-> "new", kind |-> "ok", arg |-> 0, val |-> 0,
              pre_length |-> Len(file), pre_lvo |-> 0, first |-> TRUE]
    /\ appended = {}
    /\ last_get = -1
    /\ it = NoIter
    /\ opened = Opened
    /\ peer = NoPeer
    /\ coder = NoCoder
    /\ view = NoView

\* The positions at which the frames of the file start, going by their
\* length fields.
FrameStarts == {FramesFrom(0)[k].id : k \in 1 .. Len(FramesFrom(0))}

\* The reader capacities tried on such files: a frame header, one that
\* cuts headers in two, one just above the framing bytes, and the largest.
ReadCaps == {U32Size, U32Size + 3, size_of_framing_bytes + 1, MaxBufCap}

\* The file is read either through the handle, with get at its frame
\* starts and at its end in ascending order, or by one iterator from
\* offset 0.
NextRead ==
    \/ it.state = "absent"
          /\ \E seq_num \in FrameStarts \cup {Len(file)} :
                (ret.op = "new" \/ seq_num > ret.arg) /\ get(seq_num)
    \/ ret.op = "new" /\ OffsetLogIter_new /\ it'.cap \in ReadCaps
    \/ OffsetLogIter_next

SpecRead == InitRead /\ [][NextRead]_vars

\* C5: an iterator from offset 0 over a file of n well-formed frames yields
\* the frames in order, each with its payload and its starting offset as
\* id, yields end-of-sequence only after all n, never fails, and the reader
\* stands right after the last frame yielded.
C5_IterYieldsFrames ==
    (it.state # "absent" /\ it.start = 0 /\ WellFormedFrom(0)) =>
        /\ it.state = "ready"
        /\ IsPrefix(it.items, FramesFrom(0))
        /\ it.last = "none" => it.items = FramesFrom(0)
        /\ it.last # "new" =>
              ReaderAt = (IF Len(it.items) = Len(FramesFrom(0))
                          THEN Len(file)
                          ELSE FramesFrom(0)[Len(it.items) + 1].id)

\* An iterator from 0 over two well-formed frames met a frame header split
\* across two refills of a buffer shorter than a frame, yielded both frames
\* and then the end of the sequence.
C5_Witness ==
    /\ it.state = "ready" /\ it.start = 0 /\ it.last = "none"
    /\ WellFormedFrom(0) /\ Len(it.items) = 2
    /\ it.split /\ it.cap < size_of_framing_bytes

\* C6: an iterator started at a frame start s yields the frames from s on,
\* each with its true starting offset as id (the first with id s).
C6_IterIdsAreOffsets ==
    (it.state # "absent" /\ WellFormedFrom(0)
        /\ \E k \in 1 .. Len(FramesFrom(0)) : FramesFrom(0)[k].id = it.start) =>
        IsPrefix(it.items, FramesFrom(it.start))

\* C7: next() always returns: it neither fails nor loops forever, also
\* when the bytes before end-of-file do not make a complete frame.
C7_IterTerminates == it.state \in {"absent", "ready"}

\* C8: get at an offset where the file holds no complete frame fails with
\* DecodeBufferSizeTooSmall and returns no payload.
C8_IncompleteFrameTooSmall ==
    (ret.op = "get" /\ ret.kind # "io" /\ ~CompleteFrameAt(ret.arg)) =>
        ret.kind = "toosmall"

\* C9: get at a complete frame whose two length fields disagree returns
\* CorruptLogFile, and a get that returns CorruptLogFile leaves
\* `last_valid_offset` and `length` as they were before the call.
C9_CorruptKeepsPosition ==
    /\ (ret.op = "get" /\ ret.kind # "io" /\ CompleteFrameAt(ret.arg)
            /\ LengthsDisagreeAt(ret.arg)) => ret.kind = "corrupt"
    /\ (ret.op = "get" /\ ret.kind = "corrupt") =>
          (last_valid_offset = ret.pre_lvo /\ length = ret.pre_length)

\* After a successful get, a get met a complete frame with two different
\* length fields and returned CorruptLogFile.
C9_Witness ==
    /\ ret.op = "get" /\ ret.kind = "corrupt" /\ ret.pre_lvo > 0
    /\ CompleteFrameAt(ret.arg) /\ LengthsDisagreeAt(ret.arg)

\* C10: the file is a concatenation of well-formed frames whose trailing
\* offsets chain up to the file length, which is the handle's `length`.
C10_FileIsFrameChain ==
    /\ WellFormedFrom(0)
    /\ length = Len(file)

\* C11: the log is append-only. Over every call the file before the call
\* is a prefix of the file after it, and a get or latest call leaves the
\* file as it was.
C11_AppendOnly ==
    [][/\ IsPrefix(file, file')
       /\ (ret' # ret /\ ret'.op \in {"get", "latest"}) => file' = file]_vars

\* Two appends returned Ok, one of them after a write that stopped short,
\* so that the file holds the bytes of both, and a get then read the file.
C11_Witness ==
    /\ ret.op = "get" /\ ret.kind # "io" /\ erred = 0
    /\ Cardinality(appended) = 2
    /\ size_of_framing_bytes < Len(file) /\ Len(file) < length

\* The second handle's append found the file longer than its own `length`
\* and wrote its whole frame.
PeerAppendedStale ==
    /\ peer.ret.kind = "ok"
    /\ peer.ret.pre_length # peer.ret.at
    /\ Len(file) = peer.ret.at + size_of_framing_bytes + Len(peer.ret.arg)

\* C20: with two handles on one file, an append through a handle whose
\* `length` is not the file size writes a frame whose trailing offset is not
\* the position that follows it, leaves that handle's `length` different
\* from the file size, and returns an offset that is not where the frame
\* starts.
C20_TwoHandlesDrift ==
    PeerAppendedStale =>
        /\ CompleteFrameAt(peer.ret.at)
        /\ TrailingOffsetAt(peer.ret.at) # put_uint_be(FrameEnd(peer.ret.at), W)
        /\ peer.length # Len(file)
        /\ peer.ret.val # peer.ret.at

\* Both handles were opened on the empty file, the first appended a frame
\* and then the second did.
C20_Witness ==
    /\ PeerAppendedStale
    /\ peer.ret.pre_length = 0 /\ peer.ret.at > 0
    /\ ret.op = "append" /\ ret.kind = "ok" /\ ret.val = 0

\* C12: payloads encoded one after another into an empty buffer, from any
\* starting offset, come back from as many decode calls in the same order,
\* and the buffer is then empty; for W = 4 and W = 8.
C12_CodecRoundTrip ==
    (coder.on /\ coder.initial = <<>>) =>
        /\ \A i \in 1 .. Min(Len(coder.out), Len(coder.items)) :
              coder.out[i] = [kind |-> "some", data |-> coder.items[i]]
        /\ Len(coder.out) = Len(coder.items) => coder.dest = <<>>

\* Two payloads, one of them not empty, were encoded for W = 8 from an
\* offset above 0 and both decoded.
C12_Witness ==
    /\ coder.on /\ coder.initial = <<>> /\ W = 8
    /\ Len(coder.items) = 2 /\ Len(coder.out) = 2
    /\ coder.items[1] # <<>> /\ coder.given > 16

\* The buffer b holds the whole frame its first 4 bytes claim.
HoldsFrame(b) ==
    /\ Len(b) >= U32Size
    /\ Len(b) >= 2 * U32Size + W + read_u32_be(b)

\* The second length field of b, where b is long enough to hold it.
SecondLength(b) ==
    read_u32_be(SubSeq(b, U32Size + read_u32_be(b) + 1,
                          2 * U32Size + read_u32_be(b)))

\* C13: decode returns need-more-data and leaves the buffer as it is when
\* the buffer holds fewer than 4 bytes or fewer than the 8 + W + L bytes
\* its header claims; on a whole frame it returns CorruptLogFile exactly
\* when the second length differs from the first, and otherwise bytes
\* 4 .. 4 + L, with the buffer advanced by 8 + W + L.
C13_DecodeCases ==
    (coder.on /\ coder.last \in {"none", "corrupt", "some"}) =>
        LET b == coder.pre
            L == read_u32_be(b)
        IN  IF ~HoldsFrame(b)
            THEN coder.last = "none" /\ coder.dest = b
            ELSE /\ coder.last = "corrupt" <=> SecondLength(b) # L
                 /\ coder.last # "corrupt" =>
                       /\ coder.last = "some"
                       /\ coder.out[Len(coder.out)].data
                             = SubSeq(b, U32Size + 1, U32Size + L)
                       /\ coder.dest = Drop(b, 2 * U32Size + W + L)

\* decode returned need-more-data on a buffer that ends inside the trailing
\* offset of a frame whose second length already differs from the first.
C13_Witness ==
    /\ coder.on /\ coder.last = "none"
    /\ Len(coder.pre) >= U32Size
    /\ Len(coder.pre) >= 2 * U32Size + read_u32_be(coder.pre)
    /\ Len(coder.pre) < 2 * U32Size + W + read_u32_be(coder.pre)
    /\ SecondLength(coder.pre) # read_u32_be(coder.pre)

\* The bytes b are n written big-endian: the last byte is n mod 256 and the
\* bytes before it are n div 256 written big-endian.
RECURSIVE IsBigEndian(_, _)
IsBigEndian(b, n) ==
    IF b = <<>> THEN n = 0
    ELSE b[Len(b)] = n % 256
         /\ IsBigEndian(SubSeq(b, 1, Len(b) - 1), n \div 256)

\* C14: encode(offset, payload, dest) leaves what dest held and appends to
\* it |payload| as 4 big-endian bytes, the payload, |payload| as 4
\* big-endian bytes and offset + 8 + W + |payload| as W big-endian bytes,
\* and returns offset + 8 + W + |payload|; for W = 4, encode(0, [1,2,3,4])
\* gives [0,0,0,4, 1,2,3,4, 0,0,0,4, 0,0,0,16] and returns 16.
C14_EncodeLayout ==
    (coder.on /\ coder.last = "encode") =>
        LET payload == coder.items[Len(coder.items)]
            L == Len(payload)
            added == Drop(coder.dest, Len(coder.pre))
        IN  /\ IsPrefix(coder.pre, coder.dest)
            /\ Len(added) = 2 * U32Size + W + L
            /\ IsBigEndian(SubSeq(added, 1, U32Size), L)
            /\ SubSeq(added, U32Size + 1, U32Size + L) = payload
            /\ IsBigEndian(SubSeq(added, U32Size + L + 1, 2 * U32Size + L), L)
            /\ IsBigEndian(Drop(added, 2 * U32Size + L),
                           coder.given + 2 * U32Size + W + L)
            /\ coder.offset = coder.given + 2 * U32Size + W + L
            /\ (W = 4 /\ coder.given = 0 /\ coder.pre = <<>>
                      /\ payload = <<1, 2, 3, 4>>) =>
                  /\ coder.dest = <<0, 0, 0, 4, 1, 2, 3, 4,
                                    0, 0, 0, 4, 0, 0, 0, 16>>
                  /\ coder.offset = 16

\* encode::<u32>(0, [1, 2, 3, 4]) was applied to an empty buffer.
C14_Witness ==
    /\ coder.on /\ coder.last = "encode" /\ W = 4
    /\ coder.given = 0 /\ coder.pre = <<>>
    /\ coder.items = <<(<<1, 2, 3, 4>>)>>

\* C15: reopening leaves the file's bytes as they were, sets `length` to the
\* file size and last_valid_offset to 0; after it, get at an offset that
\* was returned before the reopen gives the payload appended there, and the
\* first append returns the file size found at the reopen.
C15_ReopenPreserves ==
    opened.reopened =>
        /\ ret.op = "new" =>
              (file = ret.arg /\ length = Len(file) /\ last_valid_offset = 0)
        /\ (ret.op = "get" /\ ret.kind # "io") =>
              \A r \in opened.before :
                  r.off = ret.arg => (ret.kind = "ok" /\ ret.val = r.data)
        /\ (ret.op = "append" /\ ret.kind = "ok" /\ ret.first) =>
              ret.val = opened.size

Range(s) == {s[i] : i \in 1 .. Len(s)}

\* The bytes are a message of the shape SsbMessage has: a JSON object with
\* a string key, an integer timestamp and a value object holding a string
\* author, a non-negative integer sequence, an integer timestamp and some
\* content.
IsMessage(item) ==
    /\ item.json
    /\ item.key.kind = "string"
    /\ item.timestamp.kind = "number"
    /\ item.value.kind = "object"
    /\ item.value.author.kind = "string"
    /\ item.value.sequence.kind = "number" /\ item.value.sequence.n >= 0
    /\ item.value.timestamp.kind = "number"
    /\ item.value.content.kind # "missing"

\* The message's content is an object whose type is the string t.
HasType(item, t) ==
    /\ item.value.content.kind = "object"
    /\ item.value.content.type = Str(t)

\* C16: after append(s, msg) of a message whose sequence and key the index
\* does not hold, get_seq_by_key(msg.key) gives s and get_seqs_by_type of
\* its content type holds s; get_seqs_by_type(t) returns Ok with exactly
\* the sequences of the indexed messages of type t, each once, and
\* get_seq_by_key returns the sequence indexed under the key, or an error
\* for a key that was never indexed.
C16_QueriesFindIndexed ==
    LET r == view.ret IN
    /\ (r.op = "append" /\ IsMessage(r.val)
          /\ ~\E x \in r.pre : x.id = r.arg \/ x.key = r.val.key.s) =>
          /\ r.kind = "ok"
          /\ select_by_key(view.rows, r.val.key.s) = {r.arg}
          /\ \A t \in QueryTypes : HasType(r.val, t) =>
                r.arg \in Range(select_by_type(view.rows, t))
    /\ r.op = "get_seqs_by_type" =>
          LET expected == {x.seq : x \in {y \in view.indexed :
                                              HasType(y.item, r.arg)}}
          IN  /\ r.kind = "ok"
              /\ Range(r.val) = expected
              /\ Len(r.val) = Cardinality(expected)
    /\ r.op = "get_seq_by_key" =>
          IF \E x \in view.indexed : x.item.key.s = r.arg
          THEN /\ r.kind = "ok"
               /\ \E x \in view.indexed :
                     x.item.key.s = r.arg /\ x.seq = r.val
          ELSE r.kind = "err"

\* With a message of type post at 1234 and one without a content type in
\* the index, get_seqs_by_type("post") returned just 1234.
C16_Witness ==
    /\ view.ret.op = "get_seqs_by_type" /\ view.ret.arg = "post"
    /\ view.ret.val = <<1234>>
    /\ Cardinality(view.rows) = 2
    /\ \E x \in view.rows : x.content_type = Null

\* C17: append(s, bytes) with bytes that are no message returns normally
\* and leaves the rows of the index as they were; if no row had sequence s
\* before, no query returns s afterwards.
C17_UnparsedLeavesIndex ==
    LET r == view.ret IN
    (r.op = "append" /\ ~IsMessage(r.val)) =>
        /\ r.kind = "ok"
        /\ view.rows = r.pre
        /\ (~\E x \in r.pre : x.id = r.arg) =>
              /\ \A key \in QueryKeys :
                    r.arg \notin select_by_key(view.rows, key)
              /\ \A t \in QueryTypes :
                    r.arg \notin Range(select_by_type(view.rows, t))

\* Bytes that are JSON but no message (the key is missing) were appended
\* under a new sequence to an index that holds a row.
C17_Witness ==
    /\ view.ret.op = "append" /\ view.ret.kind = "ok"
    /\ view.ret.val.json /\ view.ret.val.key = Missing
    /\ view.ret.pre # {}
    /\ ~\E x \in view.ret.pre : x.id = view.ret.arg

\* The payload of the complete frame at pos.
PayloadAt(pos) ==
    SubSeq(FileFrom(pos), U32Size + 1, U32Size + read_u32_be(FileFrom(pos)))

\* The start of the first frame whose two length fields disagree, or -1
\* when the file has no such frame.
FirstBad ==
    LET bad == {p \in FrameStarts : LengthsDisagreeAt(p)}
    IN  IF bad = {} THEN -1 ELSE CHOOSE p \in bad : \A q \in bad : p <= q

\* The frames that start before position pos.
FramesBefore(pos) ==
    SubSeq(FramesFrom(0), 1, Cardinality({p \in FrameStarts : p < pos}))

\* C18: a next() call of an iterator from 0 whose reader stands at the
\* first frame with two different length fields returns end-of-sequence
\* and yields nothing; the frames before it, and only they, were yielded
\* in order with their payloads.
C18_CorruptEndsIteration ==
    [][(it.state = "ready" /\ it.start = 0 /\ it' # it
          /\ FirstBad # -1 /\ ReaderAt = FirstBad) =>
          /\ it.items = FramesBefore(FirstBad)
          /\ it'.state = "ready" /\ it'.last = "none"
          /\ it'.items = it.items]_vars

\* An iterator whose buffer is shorter than a frame yielded the first
\* frame and returned end-of-sequence at the second, whose length fields
\* disagree.
C18_Witness ==
    /\ it.state = "ready" /\ it.start = 0 /\ it.last = "none"
    /\ FirstBad > 0 /\ it.items = FramesBefore(FirstBad)
    /\ Len(it.items) = 1 /\ it.cap < size_of_framing_bytes

\* C19: what get at a frame start and an iterator from 0 return is fixed by
\* the length fields and the payloads alone, so it is the same for files
\* that differ only in trailing offsets. get returns the payload when the
\* two lengths agree and CorruptLogFile when they do not; next() at a frame
\* start yields that frame's payload with its offset as id and moves to the
\* next frame when the lengths agree, and returns end-of-sequence when they
\* do not or at the end of the file. No trailing offset is ever reported.
C19_TrailingOffsetUnread ==
    [][/\ (ret' # ret /\ ret'.op = "get" /\ ret'.arg \in FrameStarts) =>
             IF LengthsDisagreeAt(ret'.arg)
             THEN ret'.kind = "corrupt"
             ELSE ret'.kind = "ok" /\ ret'.val = PayloadAt(ret'.arg)
       /\ (it.state = "ready" /\ it' # it /\ it.lvo = ReaderAt
             /\ ReaderAt \in FrameStarts \cup {Len(file)}) =>
             IF ReaderAt = Len(file) \/ LengthsDisagreeAt(ReaderAt)
             THEN /\ it'.state = "ready" /\ it'.last = "none"
                  /\ it'.items = it.items /\ it'.lvo = it.lvo
             ELSE /\ it'.state = "ready" /\ it'.last = "item"
                  /\ it'.items = Append(it.items,
                        [id |-> ReaderAt, data |-> PayloadAt(ReaderAt)])
                  /\ it'.lvo = FrameEnd(ReaderAt)
                  /\ it'.pos - Len(it'.buf) = FrameEnd(ReaderAt)]_vars

\* An iterator yielded both frames of a file and then end-of-sequence at
\* its end, where neither trailing offset is the position after its frame.
C19_Witness ==
    /\ it.state = "ready" /\ it.start = 0 /\ it.last = "none"
    /\ Len(it.items) = 2 /\ ReaderAt = Len(file)
    /\ \A p \in FrameStarts :
          TrailingOffsetAt(p) # put_uint_be(FrameEnd(p), W)

\* C21: append(s, msg) of a message fails, by panicking on the unwrapped
\* INSERT, when the index holds a row with sequence s or a row with the
\* message's key; the rows of the index are the same after the failed call,
\* so no row was overwritten or added.
C21_InsertOnly ==
    LET r == view.ret IN
    (r.op = "append" /\ IsMessage(r.val)
       /\ \E x \in r.pre : x.id = r.arg \/ x.key = r.val.key.s) =>
        /\ r.kind = "panic"
        /\ view.rows = r.pre

\* A message whose key the index holds was appended under a sequence the
\* index does not hold, with another content type than the indexed row has;
\* the call failed.
C21_Witness ==
    LET r == view.ret IN
    /\ r.op = "append" /\ IsMessage(r.val) /\ r.kind = "panic"
    /\ ~\E x \in r.pre : x.id = r.arg
    /\ \E x \in r.pre :
          /\ x.key = r.val.key.s
          /\ x.content_type # content_as_str(r.val.value.content, "type")

\* C23: the view's `latest` is the value the constructor was given and no
\* call changes it: not an append, whether it inserts, fails or skips its
\* bytes, and not a query. latest() returns that value, whatever sequences
\* the index holds.
C23_LatestIsConstant ==
    [][/\ view'.latest = view.latest
       /\ (view' # view /\ view'.ret.op = "latest") =>
             /\ view'.ret.kind = "ok"
             /\ view'.ret.val = view.latest
             /\ view'.rows = view.rows]_vars

\* A view constructed with latest 0 holds a row with sequence 1234, and
\* latest() returned 0.
C23_Witness ==
    /\ view.ret.op = "latest" /\ view.ret.val = 0 /\ view.latest = 0
    /\ \E x \in view.rows : x.id = 1234

\* C22: the iterator is fused. Once a next() call has returned
\* end-of-sequence on a file that is not modified, every later next()
\* returns end-of-sequence too and yields no item: not at the end of the
\* file, and not after a frame with two different length fields, also when
\* part of that frame was consumed from the reader while it was gathered.
C22_IteratorFused ==
    [][(it.state = "ready" /\ it.last = "none" /\ it' # it) =>
          /\ it'.state = "ready" /\ it'.last = "none"
          /\ it'.items = it.items]_vars
====
